---- MODULE Spec2Model ----
(***************************************************************************)
(* Model of slidepack_generator.py: a presentation (python-pptx document)  *)
(* whose slides are created from named layouts by add_slide, the           *)
(* classification of a slide's placeholders, the helpers that remove a     *)
(* placeholder or replace it by a plain picture, and the image-fit         *)
(* calculation, which the code carries out in binary64 floating point.     *)
(***************************************************************************)
EXTENDS Integers, Sequences, FiniteSets, TLC

VARIABLES slides, last, returned, nops

vars == <<slides, last, returned, nops>>

(***************************************************************************)
(* Bounds of the exploration.                                              *)
(***************************************************************************)
\* operations (add_slide calls, direct helper calls, slide moves) per run
MaxOps == 2
\* longest list of body strings a caller passes
MaxBodies == 3
\* longest list of picture paths a caller passes
MaxPictures == 2
\* image and placeholder sizes of the fit calculation taken alone
MaxImgW == 2
MaxImgH == 11
MaxPhW == 2
MaxPhH == 15

(***************************************************************************)
(* Values of the program.                                                  *)
(***************************************************************************)
\* The "" that get_slide_placeholders leaves in the title bucket when the
\* slide has no title placeholder (an index is an integer >= 0).
NoTitle == -1

\* A title argument that is not a str (None, a number, ...).
NonStr == "<not a str>"

\* python-pptx numbers the first slide of a deck 256: max([255] + ids) + 1.
MinSlideId == 255

\* Significand width of a Python float (IEEE 754 binary64).
MantBits == 53

\* Layout placeholders python-pptx does not clone onto a new slide.
NotCloned == {"DATE", "FOOTER", "SLIDE_NUMBER"}

Ph(idx, type, left, top, width, height) ==
    [is_placeholder |-> TRUE, idx |-> idx, type |-> type, text |-> "",
     image |-> "", left |-> left, top |-> top, width |-> width, height |-> height]

\* A plain picture shape, as slide.shapes.add_picture creates it.
Pic(image, left, top, width, height) ==
    [is_placeholder |-> FALSE, idx |-> -1, type |-> "", text |-> "",
     image |-> image, left |-> left, top |-> top, width |-> width, height |-> height]

\* The template of the test suite: its layouts, in their defined order, each
\* with its shapes in the document's native order.
slide_layouts ==
    << [name |-> "no_placeholders",
        shapes |-> << Pic("logo.png", 0, 0, 2, 2) >>],
       [name |-> "title_only",
        shapes |-> << Ph(0, "TITLE", 1, 1, 30, 4) >>],
       [name |-> "title_2txt",
        shapes |-> << Ph(0, "TITLE", 1, 1, 30, 4),
                      Ph(14, "BODY", 16, 6, 14, 10),
                      Ph(13, "BODY", 1, 6, 14, 10) >>],
       [name |-> "title_2pic_3txt",
        shapes |-> << Ph(0, "TITLE", 1, 1, 30, 4),
                      Ph(13, "BODY", 1, 30, 30, 3),
                      Ph(11, "PICTURE", 16, 6, 30, 10),
                      Ph(10, "BODY", 1, 26, 30, 3),
                      Ph(15, "PICTURE", 1, 6, 12, 20),
                      Ph(14, "BODY", 1, 22, 30, 3),
                      Pic("logo.png", 0, 0, 2, 2) >>],
       [name |-> "other_placeholders",
        shapes |-> << Ph(0, "TITLE", 1, 1, 30, 4),
                      Ph(10, "OBJECT", 1, 6, 30, 10),
                      Ph(11, "DATE", 1, 18, 5, 1),
                      Ph(12, "SLIDE_NUMBER", 8, 18, 5, 1) >>] >>

\* The image files on disk, with Image.open(path).size.
ImageSize ==
    [p \in {"p1.png", "p2.png", "p3.png"} |->
        CASE p = "p1.png" -> <<10, 5>>
          [] p = "p2.png" -> <<1, 11>>
          [] OTHER -> <<7, 7>>]

(***************************************************************************)
(* Python floats.  A positive float is [exp, bits]: bits is its MantBits-  *)
(* bit significand, most significant bit first (bits[1] = 1), and exp the  *)
(* power of two of that leading bit.  Every operation rounds to nearest,   *)
(* ties to even, as binary64 arithmetic does.                              *)
(***************************************************************************)
\* Sequences built digit by digit are passed through SubSeq, which makes
\* TLC compute them once instead of at every use.

\* The k binary digits of c < 2^k, most significant first.
FixedBits(c, k) == SubSeq([i \in 1..k |-> (c \div 2^(k - i)) % 2], 1, k)

\* The binary digits of c >= 0 without leading zeros; <<>> for 0.
NatBits(c) ==
    LET n == CHOOSE m \in 0..30 : c < 2^m /\ (m = 0 \/ 2^(m - 1) <= c)
    IN  FixedBits(c, n)

\* The number whose binary digits are b (fewer than 31 of them).
RECURSIVE BitsToNat(_)
BitsToNat(b) ==
    IF Len(b) = 0 THEN 0
    ELSE IF Len(b) = 1 THEN b[1]
    ELSE LET h == Len(b) \div 2 IN
         BitsToNat(SubSeq(b, 1, h)) * 2^(Len(b) - h) + BitsToNat(SubSeq(b, h + 1, Len(b)))

\* b + 1 in Len(b) bits, with the carry out of the leading bit.
IncBits(b) ==
    [bits  |-> SubSeq([i \in 1..Len(b) |->
                  IF \A j \in (i + 1)..Len(b) : b[j] = 1 THEN 1 - b[i] ELSE b[i]],
                      1, Len(b)),
     carry |-> IF \A j \in 1..Len(b) : b[j] = 1 THEN 1 ELSE 0]

\* The float nearest to the exact value whose leading bit has power e and
\* whose bits are P followed, when sticky, by further nonzero bits.
RoundFloat(e, P, sticky) ==
    LET keep  == SubSeq(P, 1, MantBits)
        rest  == SubSeq(P, MantBits + 1, Len(P))
        guard == rest # <<>> /\ rest[1] = 1
        tail  == sticky \/ \E i \in 2..Len(rest) : rest[i] = 1
        up    == guard /\ (tail \/ keep[MantBits] = 1)
        inc   == IncBits(keep)
    IN  IF ~up THEN [exp |-> e, bits |-> keep]
        ELSE IF inc.carry = 0 THEN [exp |-> e, bits |-> inc.bits]
        ELSE [exp |-> e + 1, bits |-> <<1>> \o SubSeq(inc.bits, 1, MantBits - 1)]

\* n / d scaled by a power of two into [1, 2): d <= n < 2d.
RECURSIVE Normalize(_, _, _)
Normalize(n, d, e) ==
    IF n < d THEN Normalize(2 * n, d, e - 1)
    ELSE IF 2 * d <= n THEN Normalize(n, 2 * d, e + 1)
    ELSE [n |-> n, d |-> d, e |-> e]

\* 2^i mod d, for i < 60 and d < 2^15.
PowMod(i, d) == ((2^(i \div 2) % d) * (2^(i - i \div 2) % d)) % d

\* r * 2^i mod d: the remainder long division is left with after i digits
\* of the binary expansion of r / d (r < d).
DivRem(r, d, i) == (r * PowMod(i, d)) % d

\* The first k digits of the binary expansion of r / d (r < d), and the
\* remainder left after them.
DivBits(r, d, k) ==
    [bits |-> SubSeq([i \in 1..k |-> IF 2 * DivRem(r, d, i - 1) >= d THEN 1 ELSE 0],
                     1, k),
     rem  |-> DivRem(r, d, k)]

\* Python's n / d for integers n, d > 0.
true_divide(n, d) ==
    LET nm == Normalize(n, d, 0)
        q  == DivBits(nm.n - nm.d, nm.d, MantBits)
    IN  RoundFloat(nm.e, <<1>> \o q.bits, q.rem > 0)

\* The binary digits of value(b) * w + cin (w > 0, b[1] = 1), worked out
\* thirteen digits of b at a time from the least significant end.
RECURSIVE MulBits(_, _, _)
MulBits(b, w, cin) ==
    IF Len(b) <= 13 THEN NatBits(BitsToNat(b) * w + cin)
    ELSE LET n == Len(b)
             t == BitsToNat(SubSeq(b, n - 12, n)) * w + cin
         IN  MulBits(SubSeq(b, 1, n - 13), w, t \div 2^13) \o FixedBits(t % 2^13, 13)

\* Python's w * f for an integer w > 0 and a float f.
int_times_float(w, f) ==
    LET P == MulBits(f.bits, w, 0)
    IN  RoundFloat(f.exp + Len(P) - MantBits, P, FALSE)

BitsLess(a, b) ==
    \E i \in 1..Len(a) : a[i] < b[i] /\ \A j \in 1..(i - 1) : a[j] = b[j]

FloatLess(a, b) == a.exp < b.exp \/ (a.exp = b.exp /\ BitsLess(a.bits, b.bits))

\* Python's min(a, b): the first argument unless the second is smaller.
float_min(a, b) == IF FloatLess(b, a) THEN b ELSE a

\* Python's int(f): truncation toward zero.
float_to_int(f) ==
    IF f.exp < 0 THEN 0
    ELSE BitsToNat(SubSeq(f.bits, 1, f.exp + 1))

calc_max_image_height_within_placeholder(img_size, placeholder_size) ==
    LET img_width == img_size[1]
        img_height == img_size[2]
        placeholder_width == placeholder_size[1]
        placeholder_height == placeholder_size[2]
        width_scale_factor == true_divide(placeholder_width, img_width)
        height_scale_factor == true_divide(placeholder_height, img_height)
        scale_factor == float_min(width_scale_factor, height_scale_factor)
        output_width == float_to_int(int_times_float(img_width, scale_factor))
        output_height == float_to_int(int_times_float(img_height, scale_factor))
    IN  <<output_width, output_height>>

(***************************************************************************)
(* The document model (python-pptx), as far as the module uses it.  A      *)
(* slide is [slide_id, obj, shapes]: obj stands for the identity of the    *)
(* slide object, which no operation changes, and shapes is the native      *)
(* shape order.  A step that can raise returns [slide, raised].            *)
(***************************************************************************)
Reverse(s) == [i \in 1..Len(s) |-> s[Len(s) + 1 - i]]

RemoveAt(s, i) == SubSeq(s, 1, i - 1) \o SubSeq(s, i + 1, Len(s))

Max(S) == CHOOSE x \in S : \A y \in S : y <= x

\* Position in slide.shapes of slide.placeholders[idx], 0 for a KeyError.
PlaceholderPos(slide, idx) ==
    LET hits == {i \in DOMAIN slide.shapes :
                    slide.shapes[i].is_placeholder /\ slide.shapes[i].idx = idx}
    IN  IF hits = {} THEN 0 ELSE CHOOSE i \in hits : \A j \in hits : i <= j

\* An add_slide of the library that puts the new slide first in the deck.
prs_add_slide_first(prs, layout) ==
    <<[slide_id |-> Max({MinSlideId} \cup {prs[i].slide_id : i \in DOMAIN prs}) + 1,
       obj      |-> Len(prs) + 1,
       shapes   |-> SelectSeq(layout.shapes,
                              LAMBDA sh : sh.is_placeholder /\ sh.type \notin NotCloned)]>>
        \o prs

\* prs.slides.add_slide(layout): a new slide at the end of the deck, with
\* the next free id and a clone of each cloneable layout placeholder.
prs_add_slide(prs, layout) ==
    Append(prs,
           [slide_id |-> Max({MinSlideId} \cup {prs[i].slide_id : i \in DOMAIN prs}) + 1,
            obj      |-> Len(prs) + 1,
            shapes   |-> SelectSeq(layout.shapes,
                                   LAMBDA sh : sh.is_placeholder /\ sh.type \notin NotCloned)])

\* prs.slides.get(slide_id): the position of the slide, 0 for None.
slides_get(prs, slide_id) ==
    IF \E i \in DOMAIN prs : prs[i].slide_id = slide_id
    THEN CHOOSE i \in DOMAIN prs : prs[i].slide_id = slide_id
    ELSE 0

\* placeholder.text = text, on slide.placeholders[idx].
set_text(slide, idx, text) ==
    LET i == PlaceholderPos(slide, idx)
    IN  IF i = 0 THEN [slide |-> slide, raised |-> "KeyError"]
        ELSE [slide  |-> [slide EXCEPT !.shapes[i].text = text], raised |-> ""]

\* slide.shapes.title.text = title: the title shape is the first placeholder
\* of idx 0.
set_title(slide, title) ==
    IF PlaceholderPos(slide, 0) = 0 THEN [slide |-> slide, raised |-> "AttributeError"]
    ELSE set_text(slide, 0, title)

\* An insert_picture that lays the picture, a placeholder of the same idx,
\* over the placeholder it was to replace.
insert_picture_over(slide, idx, picture) ==
    LET i == PlaceholderPos(slide, idx)
    IN  IF i = 0 THEN [slide |-> slide, raised |-> "KeyError"]
        ELSE IF picture \notin DOMAIN ImageSize
        THEN [slide |-> slide, raised |-> "FileNotFoundError"]
        ELSE [slide  |-> [slide EXCEPT !.shapes =
                             Append(@, [slide.shapes[i] EXCEPT !.image = picture])],
              raised |-> ""]

\* slide.placeholders[idx].insert_picture(picture): the placeholder becomes
\* a picture that is still the placeholder of that idx, at the same place.
insert_picture(slide, idx, picture) ==
    LET i == PlaceholderPos(slide, idx)
    IN  IF i = 0 THEN [slide |-> slide, raised |-> "KeyError"]
        ELSE IF picture \notin DOMAIN ImageSize
        THEN [slide |-> slide, raised |-> "FileNotFoundError"]
        ELSE [slide  |-> [slide EXCEPT !.shapes[i].image = picture], raised |-> ""]

(***************************************************************************)
(* slidepack_generator.py                                                  *)
(***************************************************************************)
\* Layout name -> index (from 0); of two layouts of one name the later wins.
get_all_slide_layouts ==
    [n \in {slide_layouts[i].name : i \in DOMAIN slide_layouts} |->
        Max({i \in DOMAIN slide_layouts : slide_layouts[i].name = n}) - 1]

\* The loop over slide.shapes, acc being slide_placeholders.
RECURSIVE ClassifyShapes(_, _)
ClassifyShapes(shapes, acc) ==
    IF shapes = <<>> THEN acc
    ELSE LET shape == Head(shapes)
             next  == IF ~shape.is_placeholder THEN acc
                      ELSE IF shape.type = "TITLE"
                      THEN [acc EXCEPT !.title = shape.idx]
                      ELSE IF shape.type = "BODY"
                      THEN [acc EXCEPT !.body = Append(@, shape.idx)]
                      ELSE IF shape.type = "PICTURE"
                      THEN [acc EXCEPT !.picture = Append(@, shape.idx)]
                      ELSE [acc EXCEPT !.other = (shape.idx :> shape.type) @@ @]
         IN  ClassifyShapes(Tail(shapes), next)

\* A classification that leaves the buckets in the order of the loop.
get_slide_placeholders_native(slide) ==
    ClassifyShapes(slide.shapes,
                   [title |-> NoTitle, body |-> <<>>, picture |-> <<>>, other |-> <<>>])

get_slide_placeholders(slide) ==
    LET slide_placeholders ==
            ClassifyShapes(slide.shapes,
                           [title |-> NoTitle, body |-> <<>>, picture |-> <<>>, other |-> <<>>])
    IN  [slide_placeholders EXCEPT !.body = Reverse(@), !.picture = Reverse(@)]

\* A lookup that falls back on the first layout when the name is no key.
get_slide_layout_idx_default(layout_name) ==
    IF layout_name \in DOMAIN get_all_slide_layouts
    THEN [value |-> get_all_slide_layouts[layout_name], raised |-> ""]
    ELSE [value |-> 0, raised |-> ""]

\* map_idx_slidelayout[layout_name], a KeyError when the name is no key.
get_slide_layout_idx(layout_name) ==
    IF layout_name \in DOMAIN get_all_slide_layouts
    THEN [value |-> get_all_slide_layouts[layout_name], raised |-> ""]
    ELSE [value |-> -1, raised |-> "KeyError"]

\* A removal that leaves the shape on the slide.
remove_placeholder_kept(slide, placeholder_idx) ==
    IF PlaceholderPos(slide, placeholder_idx) = 0
    THEN [slide |-> slide, raised |-> "KeyError"]
    ELSE [slide |-> slide, raised |-> ""]

remove_placeholder_from_slide(slide, placeholder_idx) ==
    LET i == PlaceholderPos(slide, placeholder_idx)
    IN  IF i = 0 THEN [slide |-> slide, raised |-> "KeyError"]
        ELSE [slide  |-> [slide EXCEPT !.shapes = RemoveAt(@, i)], raised |-> ""]

\* A fit-within that adds the picture and leaves the placeholder in place.
add_picture_beside_placeholder(slide, placeholder_idx, picture) ==
    LET i == PlaceholderPos(slide, placeholder_idx)
    IN  IF i = 0 THEN [slide |-> slide, raised |-> "KeyError"]
        ELSE IF picture \notin DOMAIN ImageSize
        THEN [slide |-> slide, raised |-> "FileNotFoundError"]
        ELSE [slide  |-> [slide EXCEPT !.shapes =
                             Append(@, Pic(picture, slide.shapes[i].left,
                                           slide.shapes[i].top, 1, 1))],
              raised |-> ""]

add_picture_within_placeholder(slide, placeholder_idx, picture) ==
    LET i == PlaceholderPos(slide, placeholder_idx)
    IN  IF i = 0 THEN [slide |-> slide, raised |-> "KeyError"]
        ELSE IF picture \notin DOMAIN ImageSize
        THEN [slide |-> slide, raised |-> "FileNotFoundError"]
        ELSE LET ph == slide.shapes[i]
                 placeholder_size == <<ph.width, ph.height>>
                 img_size == ImageSize[picture]
                 output_size ==
                     calc_max_image_height_within_placeholder(img_size, placeholder_size)
                 added == [slide EXCEPT !.shapes =
                              Append(@, Pic(picture, ph.left, ph.top,
                                            output_size[1], output_size[2]))]
             IN  remove_placeholder_from_slide(added, placeholder_idx)

\* A bodies or pictures argument: a list, or a bare str, of which len() and
\* [i] see the characters.
PyList(items) == [shape |-> "list", items |-> items]
PyStr(chars) == [shape |-> "str", items |-> chars]
PyLen(x) == Len(x.items)
\* An indexing that counts from the end of the sequence.
PyItemFromEnd(x, i) == x.items[Len(x.items) - i]

PyItem(x, i) == x.items[i + 1]

\* "Update Title"
UpdateTitle(slide, placeholders, title) ==
    IF placeholders.title # NoTitle
    THEN IF title # ""
         THEN set_title(slide, title)
         ELSE remove_placeholder_from_slide(slide, placeholders.title)
    ELSE [slide |-> slide, raised |-> ""]

\* "Update Body": the loop over enumerate(placeholders["body"]), from i on.
RECURSIVE UpdateBody(_, _, _, _)
UpdateBody(r, body, i, bodies) ==
    IF r.raised # "" \/ i >= Len(body) THEN r
    ELSE LET placeholder_idx == body[i + 1]
             num_bodies == PyLen(bodies)
         IN  UpdateBody(IF i < num_bodies
                        THEN set_text(r.slide, placeholder_idx, PyItem(bodies, i))
                        ELSE remove_placeholder_from_slide(r.slide, placeholder_idx),
                        body, i + 1, bodies)

\* "Update Picture": the loop over enumerate(placeholders["picture"]), from i on.
RECURSIVE UpdatePicture(_, _, _, _, _)
UpdatePicture(r, picture_phs, i, pictures, picture_scale_method) ==
    IF r.raised # "" \/ i >= Len(picture_phs) THEN r
    ELSE LET placeholder_idx == picture_phs[i + 1]
             num_pictures == PyLen(pictures)
         IN  UpdatePicture(
                 IF i < num_pictures
                 THEN IF picture_scale_method = "fill_placeholder"
                      THEN insert_picture(r.slide, placeholder_idx, PyItem(pictures, i))
                      ELSE IF picture_scale_method = "within_placeholder"
                      THEN add_picture_within_placeholder(r.slide, placeholder_idx,
                                                          PyItem(pictures, i))
                      ELSE r
                 ELSE remove_placeholder_from_slide(r.slide, placeholder_idx),
                 picture_phs, i + 1, pictures, picture_scale_method)

\* An outcome in which a failed assertion leaves the new slide without its
\* first placeholder, as if an update had run before the assertion.
AddSlideResultAfterUpdate(prs, raised, ret, obj) ==
    [prs    |-> IF raised = "AssertionError" /\ obj # 0 /\ prs[Len(prs)].shapes # <<>>
                THEN [prs EXCEPT ![Len(prs)].shapes = Tail(@)]
                ELSE prs,
     raised |-> raised, ret |-> ret, obj |-> obj]

\* The deck after the call, what the call raised ("" when it returned), the
\* value it returned and the slide object it created (obj 0: none).
AddSlideResult(prs, raised, ret, obj) ==
    [prs |-> prs, raised |-> raised, ret |-> ret, obj |-> obj]

\* "CHECK INPUTS": the three assertions.
title_accepted(placeholders, title) == placeholders.title = NoTitle => title = ""

\* A check that also turns away as many bodies as there are placeholders.
bodies_accepted_strict(num_bodies, num_body_placeholders) ==
    num_bodies < num_body_placeholders

bodies_accepted(num_bodies, num_body_placeholders) == num_bodies <= num_body_placeholders

pictures_accepted(num_pictures, num_pic_placeholders) == num_pictures <= num_pic_placeholders

\* A return of the slide's position in the deck.
returned_position(prs, slide) == Len(prs)

\* "return slide.slide_id"
returned_value(prs, slide) == slide.slide_id

add_slide(prs, layout_name, title, bodies, pictures, picture_scale_method) ==
    IF title = NonStr THEN AddSlideResult(prs, "AssertionError", 0, 0)
    ELSE LET layout_idx == get_slide_layout_idx(layout_name) IN
    IF layout_idx.raised # "" THEN AddSlideResult(prs, layout_idx.raised, 0, 0)
    ELSE LET prs1 == prs_add_slide(prs, slide_layouts[layout_idx.value + 1])
             slide == prs1[Len(prs1)]
             placeholders == get_slide_placeholders(slide)
             num_body_placeholders == Len(placeholders.body)
             num_bodies == PyLen(bodies)
             num_pic_placeholders == Len(placeholders.picture)
             num_pictures == PyLen(pictures)
         IN
    IF ~title_accepted(placeholders, title)
    THEN AddSlideResult(prs1, "AssertionError", 0, slide.obj)
    ELSE IF ~bodies_accepted(num_bodies, num_body_placeholders)
    THEN AddSlideResult(prs1, "AssertionError", 0, slide.obj)
    ELSE IF ~pictures_accepted(num_pictures, num_pic_placeholders)
    THEN AddSlideResult(prs1, "AssertionError", 0, slide.obj)
    ELSE LET t == UpdateTitle(slide, placeholders, title)
             b == UpdateBody(t, placeholders.body, 0, bodies)
             u == UpdatePicture(b, placeholders.picture, 0, pictures, picture_scale_method)
             done == [prs1 EXCEPT ![Len(prs1)] = u.slide]
         IN  AddSlideResult(done, u.raised,
                            IF u.raised = "" THEN returned_value(done, u.slide) ELSE 0,
                            slide.obj)

(***************************************************************************)
(* Callers.                                                                *)
(***************************************************************************)
\* The layout of the template that bears the name.
LayoutNamed(name) ==
    slide_layouts[CHOOSE i \in DOMAIN slide_layouts : slide_layouts[i].name = name]

KnownLayouts == {slide_layouts[i].name : i \in DOMAIN slide_layouts}

LayoutNames == KnownLayouts \cup {"no_such_layout"}

Titles == {"", "Some Title", NonStr}

BodyText(i) == "text" \o ToString(i)

PictureFiles == <<"p1.png", "p2.png", "p3.png">>

PicturePath(i) == PictureFiles[((i - 1) % Len(PictureFiles)) + 1]

BodyInputs ==
    {PyList([i \in 1..k |-> BodyText(i)]) : k \in 0..MaxBodies}
        \cup {PyStr(<<"a", "b">>),
              PyStr(<<"s", "o", "m", "e", " ", "t", "e", "x", "t", "1">>)}

PictureInputs ==
    {PyList([i \in 1..k |-> PicturePath(i)]) : k \in 0..MaxPictures}
        \cup {PyStr(<<"a", "b">>), PyStr(<<"p", "1", ".", "p", "n", "g">>)}

ScaleMethods == {"fill_placeholder", "within_placeholder", "stretch"}

\* The calls explored.  A call that fails before it looks at bodies, pictures
\* and picture_scale_method is made with their default values.
Calls ==
    [layout_name : KnownLayouts, title : Titles \ {NonStr}, bodies : BodyInputs,
     pictures : PictureInputs, picture_scale_method : ScaleMethods]
        \cup [layout_name : LayoutNames, title : Titles, bodies : {PyList(<<>>)},
              pictures : {PyList(<<>>)}, picture_scale_method : {"fill_placeholder"}]

PlaceholderIdxs ==
    UNION {{slide_layouts[i].shapes[j].idx : j \in DOMAIN slide_layouts[i].shapes} \ {-1} :
              i \in DOMAIN slide_layouts}

\* What the last operation was, with its arguments and its result.
Idle ==
    [op |-> "none", layout_name |-> "", title |-> "", bodies |-> PyList(<<>>),
     pictures |-> PyList(<<>>), picture_scale_method |-> "", raised |-> "", ret |-> 0,
     obj |-> 0, idx |-> -1, img_size |-> <<0, 0>>, placeholder_size |-> <<0, 0>>,
     output_size |-> <<0, 0>>]

\* A slide the template already holds ("any front pages to retain").
FrontPage ==
    [slide_id |-> MinSlideId + 1, obj |-> 1,
     shapes |-> << [Ph(0, "TITLE", 1, 1, 30, 4) EXCEPT !.text = "Front page"] >>]

Init ==
    /\ slides = <<FrontPage>>
    /\ last = Idle
    /\ returned = <<>>
    /\ nops = 0

AddSlide(layout_name, title, bodies, pictures, picture_scale_method) ==
    /\ nops < MaxOps
    /\ \E r \in {add_slide(slides, layout_name, title, bodies, pictures,
                            picture_scale_method)} :
           /\ slides' = r.prs
           /\ last' = [Idle EXCEPT !.op = "add_slide", !.layout_name = layout_name,
                                   !.title = title, !.bodies = bodies,
                                   !.pictures = pictures,
                                   !.picture_scale_method = picture_scale_method,
                                   !.raised = r.raised, !.ret = r.ret, !.obj = r.obj]
           /\ returned' = IF r.raised = ""
                          THEN Append(returned, [ret |-> r.ret, obj |-> r.obj])
                          ELSE returned
    /\ nops' = nops + 1

\* A caller (the test suite does) applies a helper to a slide of the deck.
RemovePlaceholder(s, placeholder_idx) ==
    /\ nops < MaxOps
    /\ \E r \in {remove_placeholder_from_slide(slides[s], placeholder_idx)} :
           /\ slides' = [slides EXCEPT ![s] = r.slide]
           /\ last' = [Idle EXCEPT !.op = "remove_placeholder", !.obj = slides[s].obj,
                                   !.idx = placeholder_idx, !.raised = r.raised]
    /\ nops' = nops + 1
    /\ UNCHANGED returned

AddPictureWithin(s, placeholder_idx, picture) ==
    /\ nops < MaxOps
    /\ \E r \in {add_picture_within_placeholder(slides[s], placeholder_idx, picture)} :
           /\ slides' = [slides EXCEPT ![s] = r.slide]
           /\ last' = [Idle EXCEPT !.op = "add_picture_within", !.obj = slides[s].obj,
                                   !.idx = placeholder_idx, !.raised = r.raised,
                                   !.pictures = PyList(<<picture>>)]
    /\ nops' = nops + 1
    /\ UNCHANGED returned

\* A caller moves the slide at position i to position j of the deck.
MoveSlide(i, j) ==
    /\ nops < MaxOps
    /\ i # j
    /\ LET rest == RemoveAt(slides, i)
       IN  slides' = SubSeq(rest, 1, j - 1) \o <<slides[i]>> \o SubSeq(rest, j, Len(rest))
    /\ last' = [Idle EXCEPT !.op = "move_slide", !.obj = slides[i].obj]
    /\ nops' = nops + 1
    /\ UNCHANGED returned

\* A caller puts a new slide of the title-only layout before the slide at
\* position j of the deck.
InsertSlide(j) ==
    /\ nops < MaxOps
    /\ LET prs1  == prs_add_slide(slides, LayoutNamed("title_only"))
           slide == prs1[Len(prs1)]
       IN  /\ slides' = SubSeq(slides, 1, j - 1) \o <<slide>>
                            \o SubSeq(slides, j, Len(slides))
           /\ last' = [Idle EXCEPT !.op = "insert_slide", !.obj = slide.obj]
    /\ nops' = nops + 1
    /\ UNCHANGED returned

Next ==
    \/ \E c \in Calls :
          AddSlide(c.layout_name, c.title, c.bodies, c.pictures, c.picture_scale_method)
    \/ \E s \in DOMAIN slides, placeholder_idx \in PlaceholderIdxs :
          RemovePlaceholder(s, placeholder_idx)
    \/ \E s \in DOMAIN slides, placeholder_idx \in PlaceholderIdxs,
          picture \in DOMAIN ImageSize :
          AddPictureWithin(s, placeholder_idx, picture)
    \/ \E i \in DOMAIN slides, j \in DOMAIN slides : MoveSlide(i, j)
    \/ \E j \in DOMAIN slides : InsertSlide(j)

Spec == Init /\ [][Next]_vars

\* The fit calculation taken alone, on every image and placeholder size
\* within the bounds and on the sizes of the test suite.
FitSizes ==
    {<<<<w, h>>, <<pw, ph>>>> : w \in 1..MaxImgW, h \in 1..MaxImgH,
                               pw \in 1..MaxPhW, ph \in 1..MaxPhH}
        \cup {<<<<1000, 500>>, <<1200, 2000>>>>, <<<<1000, 500>>, <<3000, 1000>>>>,
              <<<<1000, 500>>, <<4000, 2000>>>>, <<<<10, 40>>, <<40, 80>>>>,
              <<<<10, 40>>, <<40, 400>>>>}

FitInit ==
    /\ \E sz \in FitSizes :
          last = [Idle EXCEPT !.op = "calc_call", !.img_size = sz[1],
                              !.placeholder_size = sz[2]]
    /\ slides = <<>>
    /\ returned = <<>>
    /\ nops = 0

FitCall ==
    /\ last.op = "calc_call"
    /\ last' = [last EXCEPT !.op = "calc",
                            !.output_size =
                                calc_max_image_height_within_placeholder(
                                    last.img_size, last.placeholder_size)]
    /\ UNCHANGED <<slides, returned, nops>>

FitNext == FitCall

FitSpec == FitInit /\ [][FitNext]_vars

(***************************************************************************)
(* Properties.  They speak of the layouts as the template defines them     *)
(* and of the deck after the operation that last records.                  *)
(***************************************************************************)
\* How many placeholders of a type the layout holds.
NumLayoutPhs(name, type) ==
    Cardinality({j \in DOMAIN LayoutNamed(name).shapes :
                    /\ LayoutNamed(name).shapes[j].is_placeholder
                    /\ LayoutNamed(name).shapes[j].type = type})

\* The placeholder of the layout that has the given idx.
LayoutPh(name, idx) ==
    LayoutNamed(name).shapes[CHOOSE j \in DOMAIN LayoutNamed(name).shapes :
                                /\ LayoutNamed(name).shapes[j].is_placeholder
                                /\ LayoutNamed(name).shapes[j].idx = idx]

\* The Placeholder Map of a slide just instantiated from the layout.
FreshMap(name) == get_slide_placeholders(prs_add_slide(<<>>, LayoutNamed(name))[1])

AddSlideCalled == last.op = "add_slide"

AddSlideReturned == AddSlideCalled /\ last.raised = ""

\* The slide the returned identifier resolves to.
ResultSlide == slides[slides_get(slides, last.ret)]

ListArgs == last.bodies.shape = "list" /\ last.pictures.shape = "list"

\* C1: for a known layout, a str title and list-valued bodies and pictures,
\* add_slide raises AssertionError exactly when a non-empty title meets a layout
\* without title placeholder, or there are more bodies than body placeholders,
\* or more pictures than picture placeholders; otherwise it returns the
\* identifier of a slide of the deck.
C1_Rejected ==
    \/ last.title # "" /\ NumLayoutPhs(last.layout_name, "TITLE") = 0
    \/ PyLen(last.bodies) > NumLayoutPhs(last.layout_name, "BODY")
    \/ PyLen(last.pictures) > NumLayoutPhs(last.layout_name, "PICTURE")

C1_ValidationExact ==
    (AddSlideCalled /\ last.layout_name \in KnownLayouts /\ last.title # NonStr /\ ListArgs)
        => IF C1_Rejected
           THEN last.raised = "AssertionError"
           ELSE last.raised = "" /\ slides_get(slides, last.ret) # 0

\* Exactly as many bodies and pictures as placeholders, and a title: accepted.
C1_Witness ==
    /\ AddSlideReturned /\ ListArgs
    /\ last.title # ""
    /\ PyLen(last.bodies) = NumLayoutPhs(last.layout_name, "BODY")
    /\ PyLen(last.pictures) = NumLayoutPhs(last.layout_name, "PICTURE")
    /\ PyLen(last.bodies) > 0 /\ PyLen(last.pictures) > 0

\* C2: after a successful add_slide with k body strings and p picture paths
\* in the fill mode, the slide's Placeholder Map holds exactly the first k body
\* placeholders and the first p picture placeholders of the layout's map; the
\* others are gone from the slide.
C2_UnusedRemoved ==
    (AddSlideReturned /\ ListArgs /\ last.picture_scale_method = "fill_placeholder")
        => LET map   == get_slide_placeholders(ResultSlide)
               fresh == FreshMap(last.layout_name)
           IN  /\ map.body = SubSeq(fresh.body, 1, PyLen(last.bodies))
               /\ map.picture = SubSeq(fresh.picture, 1, PyLen(last.pictures))
               /\ Len(map.body) = PyLen(last.bodies)
               /\ Len(map.picture) = PyLen(last.pictures)

\* Fewer bodies and pictures than placeholders, at least one of each.
C2_Witness ==
    /\ AddSlideReturned /\ ListArgs /\ last.picture_scale_method = "fill_placeholder"
    /\ 0 < PyLen(last.bodies) /\ PyLen(last.bodies) < NumLayoutPhs(last.layout_name, "BODY")
    /\ 0 < PyLen(last.pictures)
    /\ PyLen(last.pictures) < NumLayoutPhs(last.layout_name, "PICTURE")
    /\ Len(get_slide_placeholders(ResultSlide).picture) = 1

\* C3: add_slide raises AssertionError whenever bodies or pictures is a bare
\* str, whatever the string and the layout.
C3_BareStringRejected ==
    (AddSlideCalled /\ last.layout_name \in KnownLayouts /\ last.title # NonStr /\ ~ListArgs)
        => last.raised = "AssertionError"

\* C4: for positive image and container sizes the fit calculation returns
\* (floor(w*s), floor(h*s)) with s = min(W/w, H/h), which never exceeds the
\* container on either axis and touches it on at least one.
C4_FitExactAndTight ==
    last.op = "calc"
        => LET w  == last.img_size[1]
               h  == last.img_size[2]
               W  == last.placeholder_size[1]
               H  == last.placeholder_size[2]
               ow == last.output_size[1]
               oh == last.output_size[2]
           IN  /\ ow = (IF W * h <= H * w THEN W ELSE (w * H) \div h)
               /\ oh = (IF W * h <= H * w THEN (h * W) \div w ELSE H)
               /\ ow <= W /\ oh <= H
               /\ (ow = W \/ oh = H)

\* C5: after a successful add_slide with p pictures in the fit-within mode
\* the slide holds exactly p plain picture shapes, the i-th showing the i-th
\* picture at the left/top of the i-th picture placeholder of the layout, and
\* reclassifying the slide finds no picture placeholder.
PlainShapes(slide) == SelectSeq(slide.shapes, LAMBDA sh : ~sh.is_placeholder)

C5_WithinReplaces ==
    (AddSlideReturned /\ ListArgs /\ last.picture_scale_method = "within_placeholder")
        => LET plain == PlainShapes(ResultSlide)
               fresh == FreshMap(last.layout_name)
           IN  /\ Len(plain) = PyLen(last.pictures)
               /\ \A i \in 1..Len(plain) :
                     /\ plain[i].image = last.pictures.items[i]
                     /\ plain[i].left = LayoutPh(last.layout_name, fresh.picture[i]).left
                     /\ plain[i].top = LayoutPh(last.layout_name, fresh.picture[i]).top
               /\ get_slide_placeholders(ResultSlide).picture = <<>>

\* Two pictures fitted within the two picture placeholders of a layout.
C5_Witness ==
    /\ AddSlideReturned /\ ListArgs /\ last.picture_scale_method = "within_placeholder"
    /\ PyLen(last.pictures) = 2
    /\ Len(PlainShapes(ResultSlide)) = 2

\* C6: a successful add_slide makes the deck one slide longer and leaves
\* every slide that was there at its position, with its shapes and their
\* contents, whatever was called before.
AddSlideStep == nops' # nops /\ last'.op = "add_slide"

C6_AppendsOneSlide ==
    [][(AddSlideStep /\ last'.raised = "")
          => /\ Len(slides') = Len(slides) + 1
             /\ SubSeq(slides', 1, Len(slides)) = slides]_vars

\* A second successful add_slide, with content, on a deck that holds the
\* slide of a first.
C6_Witness ==
    /\ AddSlideReturned /\ Len(returned) = 2 /\ Len(slides) = 3
    /\ PyLen(last.bodies) > 0

AbsentLayoutStep == AddSlideStep /\ last'.layout_name \notin KnownLayouts

C8_AbsentLayoutKeyError ==
    [][AbsentLayoutStep => (last'.raised = "KeyError" /\ slides' = slides)]_vars

\* C8 (amended): with a layout name the template lacks, the lookup raises
\* KeyError and add_slide given a str title fails with that KeyError; given
\* a title that is no str it fails with AssertionError before the lookup.
\* Either way no slide is instantiated: the deck is as it was.
C8_AbsentLayoutFails ==
    [][AbsentLayoutStep
          => /\ get_slide_layout_idx(last'.layout_name).raised = "KeyError"
             /\ last'.raised = (IF last'.title = NonStr THEN "AssertionError"
                                                         ELSE "KeyError")
             /\ slides' = slides
             /\ returned' = returned
             /\ last'.obj = 0]_vars

\* A call with a str title and an absent layout name has failed on a deck
\* that add_slide had grown before.
C8_Witness ==
    /\ AddSlideCalled /\ last.layout_name \notin KnownLayouts
    /\ last.title = "Some Title"
    /\ last.raised = "KeyError"
    /\ Len(slides) = 2 /\ nops = 2

\* C9: on every slide, each index classification puts in a bucket of the
\* Placeholder Map is the idx of exactly one placeholder shape live on the
\* slide, and no step brings an index into the buckets of a slide: an index
\* that left them with its placeholder stays out of every later
\* classification.
BucketIdxs(slide) ==
    LET map == get_slide_placeholders(slide)
    IN  (IF map.title = NoTitle THEN {} ELSE {map.title})
            \cup {map.body[i] : i \in DOMAIN map.body}
            \cup {map.picture[i] : i \in DOMAIN map.picture}
            \cup DOMAIN map.other

LiveWithIdx(slide, idx) ==
    {i \in DOMAIN slide.shapes :
        slide.shapes[i].is_placeholder /\ slide.shapes[i].idx = idx}

C9_BucketsAreLive ==
    \A s \in DOMAIN slides :
        LET map == get_slide_placeholders(slides[s])
        IN  /\ \A idx \in BucketIdxs(slides[s]) :
                  Cardinality(LiveWithIdx(slides[s], idx)) = 1
            /\ \A i, j \in DOMAIN map.body : i # j => map.body[i] # map.body[j]
            /\ \A i, j \in DOMAIN map.picture : i # j => map.picture[i] # map.picture[j]

C9_RemovedStaysOut ==
    [][\A s \in DOMAIN slides, t \in DOMAIN slides' :
          slides[s].obj = slides'[t].obj
              => BucketIdxs(slides'[t]) \subseteq BucketIdxs(slides[s])]_vars

C9_LiveAndNeverBack == []C9_BucketsAreLive /\ C9_RemovedStaysOut

\* A helper, after add_slide had filled one picture placeholder of two and
\* removed the other, took a further placeholder off that slide.
C9_Witness ==
    /\ last.op \in {"remove_placeholder", "add_picture_within"} /\ last.raised = ""
    /\ Len(returned) = 1
    /\ last.obj = returned[1].obj
    /\ \E s \in DOMAIN slides :
          /\ slides[s].obj = last.obj
          /\ \E i \in DOMAIN slides[s].shapes : slides[s].shapes[i].image # ""
          /\ last.idx \notin BucketIdxs(slides[s])
          /\ BucketIdxs(slides[s]) # {}

\* C10: the body bucket and the picture bucket list the idx of the slide's
\* placeholders of that type in the reverse of the native shape order:
\* element 0 is the last such placeholder of slide.shapes; shapes that are
\* no placeholders and placeholders of other types are not listed.
NativeOfType(slide, type) ==
    SelectSeq(slide.shapes, LAMBDA sh : sh.is_placeholder /\ sh.type = type)

IsReverseOfNative(bucket, native) ==
    /\ Len(bucket) = Len(native)
    /\ \A k \in 1..Len(bucket) : bucket[k] = native[Len(native) - k + 1].idx

C10_AuthoringOrder ==
    \A s \in DOMAIN slides :
        /\ IsReverseOfNative(get_slide_placeholders(slides[s]).body,
                             NativeOfType(slides[s], "BODY"))
        /\ IsReverseOfNative(get_slide_placeholders(slides[s]).picture,
                             NativeOfType(slides[s], "PICTURE"))

\* A slide of three bodies and two pictures, with a title between them.
C10_Witness ==
    \E s \in DOMAIN slides :
        /\ Len(NativeOfType(slides[s], "BODY")) = 3
        /\ Len(NativeOfType(slides[s], "PICTURE")) = 2
        /\ Len(NativeOfType(slides[s], "TITLE")) = 1
        /\ get_slide_placeholders(slides[s]).body[1]
              = NativeOfType(slides[s], "BODY")[3].idx

\* C11: after a successful add_slide no title, body or picture placeholder
\* of the new slide is left untouched: the title placeholder bears the title
\* or, the title being empty, is gone; each of the first p picture
\* placeholders of the layout's map has had its picture inserted (in the
\* placeholder, or in a plain shape at its place) and every other one is
\* gone, whatever the scaling mode the call succeeded with.
Untouched(sh) ==
    /\ sh.is_placeholder /\ sh.type \in {"TITLE", "BODY", "PICTURE"}
    /\ sh.text = "" /\ sh.image = ""

PictureInserted(slide, ph, picture) ==
    \/ \E i \in DOMAIN slide.shapes :
          /\ slide.shapes[i].is_placeholder /\ slide.shapes[i].idx = ph.idx
          /\ slide.shapes[i].image = picture
    \/ /\ LiveWithIdx(slide, ph.idx) = {}
       /\ \E i \in DOMAIN slide.shapes :
             /\ ~slide.shapes[i].is_placeholder
             /\ slide.shapes[i].image = picture
             /\ slide.shapes[i].left = ph.left /\ slide.shapes[i].top = ph.top

C11_NoPlaceholderUntouched ==
    AddSlideReturned
        => LET fresh == FreshMap(last.layout_name)
           IN  /\ \A i \in DOMAIN ResultSlide.shapes : ~Untouched(ResultSlide.shapes[i])
               /\ fresh.title # NoTitle
                     => IF last.title # ""
                        THEN \E i \in LiveWithIdx(ResultSlide, fresh.title) :
                                ResultSlide.shapes[i].text = last.title
                        ELSE LiveWithIdx(ResultSlide, fresh.title) = {}
               /\ \A i \in DOMAIN fresh.picture :
                     IF i <= PyLen(last.pictures)
                     THEN PictureInserted(ResultSlide,
                                          LayoutPh(last.layout_name, fresh.picture[i]),
                                          last.pictures.items[i])
                     ELSE LiveWithIdx(ResultSlide, fresh.picture[i]) = {}

\* C12: after a successful add_slide with a list of k body strings, the
\* i-th body placeholder of the slide's classification is the i-th of the
\* layout's map and bears the i-th string, and each string is on exactly one
\* shape of the slide; likewise, in either recognised scaling mode, the i-th
\* picture is inserted at the i-th picture placeholder of the layout's map
\* and each picture is on exactly one shape.
RecognisedMode == last.picture_scale_method \in {"fill_placeholder", "within_placeholder"}

ShapesWithText(slide, text) == {i \in DOMAIN slide.shapes : slide.shapes[i].text = text}

ShapesWithImage(slide, image) == {i \in DOMAIN slide.shapes : slide.shapes[i].image = image}

C12_BodiesInOrder ==
    LET map   == get_slide_placeholders(ResultSlide)
        fresh == FreshMap(last.layout_name)
    IN  /\ Len(map.body) = PyLen(last.bodies)
        /\ \A i \in 1..PyLen(last.bodies) :
              /\ map.body[i] = fresh.body[i]
              /\ ShapesWithText(ResultSlide, last.bodies.items[i])
                    = LiveWithIdx(ResultSlide, map.body[i])
              /\ Cardinality(ShapesWithText(ResultSlide, last.bodies.items[i])) = 1

C12_PicturesInOrder ==
    LET fresh == FreshMap(last.layout_name)
    IN  \A i \in 1..PyLen(last.pictures) :
           /\ PictureInserted(ResultSlide, LayoutPh(last.layout_name, fresh.picture[i]),
                              last.pictures.items[i])
           /\ Cardinality(ShapesWithImage(ResultSlide, last.pictures.items[i])) = 1

ClonedPlaceholders(name) ==
    SelectSeq(LayoutNamed(name).shapes,
              LAMBDA sh : sh.is_placeholder /\ sh.type \notin NotCloned)

C13_ValidationBeforeMutation ==
    [][(AddSlideStep /\ last'.raised = "AssertionError")
          => /\ returned' = returned
             /\ IF last'.title = NonStr
                THEN last'.obj = 0 /\ slides' = slides
                ELSE /\ Len(slides') = Len(slides) + 1
                     /\ SubSeq(slides', 1, Len(slides)) = slides
                     /\ slides'[Len(slides')].obj = last'.obj
                     /\ slides'[Len(slides')].shapes = ClonedPlaceholders(last'.layout_name)
                     /\ \A i \in DOMAIN slides'[Len(slides')].shapes :
                           /\ slides'[Len(slides')].shapes[i].text = ""
                           /\ slides'[Len(slides')].shapes[i].image = ""]_vars

\* A call with a title the layout accepts and one body too many has
\* failed: the title placeholder of its slide is there, without text.
C13_Witness ==
    /\ AddSlideCalled /\ last.raised = "AssertionError"
    /\ last.title = "Some Title"
    /\ NumLayoutPhs(last.layout_name, "TITLE") = 1
    /\ PyLen(last.bodies) > NumLayoutPhs(last.layout_name, "BODY")
    /\ NumLayoutPhs(last.layout_name, "BODY") > 0
    /\ slides[Len(slides)].obj = last.obj
    /\ \E i \in DOMAIN slides[Len(slides)].shapes :
          /\ slides[Len(slides)].shapes[i].type = "TITLE"
          /\ slides[Len(slides)].shapes[i].text = ""

====
